---- MODULE Spec2Model ----
(***************************************************************************)
(* Model of the YouTube transcription pipeline of viajera-digital:         *)
(*   src/lib/youtube-audio-extractor.ts      URL grammar, extractAudio,    *)
(*                                           the downloader's command      *)
(*   src/app/api/process-youtube-decimas/route.ts   the pipeline (POST)    *)
(*   src/app/api/export/pdf/route.ts (l. 255-449)   GroqClient.transcribe  *)
(* Strings are sequences of one-character strings, so that the regular     *)
(* expressions, the quoting and the shell's word splitting are computed.   *)
(***************************************************************************)
EXTENDS Integers, Sequences, FiniteSets, TLC

None == "None"

VARIABLES
  \* the command builder of extractAudio, on its own
  cmdPc, cmdUrl, cmdTempDir, cmdRandom, cmdPath, cmdLine,
  \* one run of GroqClient.transcribe
  tPc, tAttempt, tCalls, tCodes, tSleeps, tResult,
  tMaxAttempts,   \* retryConfig.maxAttempts
  \* the pipeline and the extractor
  now,       \* the clock, in seconds
  ticks,     \* steps of the clock so far
  started,   \* requests and direct calls started so far
  req,       \* the handler slots
  hits,      \* the limiter's store: per client identity, the times of its admitted requests
  cache,     \* the cache store: per key, whether it holds a value, and the value
  disk,      \* the paths that exist on disk
  registry,  \* tempFilesToCleanup
  jobs,      \* the downloader processes spawned, in order
  doneOk,    \* identifiers whose runs have extracted the audio and have ended
  proc,      \* the server process: running, in its exit handlers, or gone
  \* one call of callTranscriptionApi
  ctPc, ctEnv, ctOut,
  \* one call of extractYouTubeVideoId
  idPc, idUrl, idOut,
  \* calls of cleanupFile, in order
  clCalls,
  \* one call of classifyError
  cePc, ceError, ceCode,
  \* one call of getBackoffDelay
  bdPc, bdAttempt, bdRandom, bdDelay

cmdVars == <<cmdPc, cmdUrl, cmdTempDir, cmdRandom, cmdPath, cmdLine>>
groqVars == <<tPc, tAttempt, tCalls, tCodes, tSleeps, tResult, tMaxAttempts>>
pipeVars == <<now, ticks, started, req, hits, cache, disk, registry, jobs, doneOk, proc>>
callVars == <<ctPc, ctEnv, ctOut>>
idVars == <<idPc, idUrl, idOut>>
clVars == <<clCalls>>
ceVars == <<cePc, ceError, ceCode>>
bdVars == <<bdPc, bdAttempt, bdRandom, bdDelay>>
vars == <<cmdVars, groqVars, pipeVars, callVars, idVars, clVars, ceVars, bdVars>>

(* ------------------------------------------------------------------ *)
(* Strings                                                             *)
(* ------------------------------------------------------------------ *)
IsPrefix(p, s) == Len(p) <= Len(s) /\ SubSeq(s, 1, Len(p)) = p

Drop(s, n) == SubSeq(s, n + 1, Len(s))

\* the concatenation of ss[lo], ..., ss[hi], halving the range
RECURSIVE ConcatRange(_, _, _)
ConcatRange(ss, lo, hi) ==
  IF lo > hi THEN << >>
  ELSE IF lo = hi THEN ss[lo]
  ELSE LET mid == (lo + hi) \div 2
       IN ConcatRange(ss, lo, mid) \o ConcatRange(ss, mid + 1, hi)

Concat(ss) == ConcatRange(ss, 1, Len(ss))

\* Array.prototype.join(' ')
RECURSIVE JoinSp(_)
JoinSp(ws) ==
  IF ws = << >> THEN << >>
  ELSE IF Len(ws) = 1 THEN Head(ws)
  ELSE Head(ws) \o <<" ">> \o JoinSp(Tail(ws))

Lower == {"a","b","c","d","e","f","g","h","i","j","k","l","m",
          "n","o","p","q","r","s","t","u","v","w","x","y","z"}
Upper == {"A","B","C","D","E","F","G","H","I","J","K","L","M",
          "N","O","P","Q","R","S","T","U","V","W","X","Y","Z"}
Digit == {"0","1","2","3","4","5","6","7","8","9"}

\* the class [a-zA-Z0-9_-] of both regular expressions
IdChar == Lower \cup Upper \cup Digit \cup {"_", "-"}

\* the {11} of both regular expressions
IdLen == 11

\* JavaScript's "." matches every character but a line terminator
LineTerminator == {"\n", "\r"}

(* ------------------------------------------------------------------ *)
(* src/lib/youtube-audio-extractor.ts: the URL grammar                 *)
(* ------------------------------------------------------------------ *)
\* an optional group (p1|p2|...)? at the head of s: the possible remainders
StripOpt(s, ps) == {s} \cup {Drop(s, Len(p)) : p \in {q \in ps : IsPrefix(q, s)}}

\* a mandatory group (p1|p2|...) at the head of s: the possible remainders
StripOne(s, ps) == {Drop(s, Len(p)) : p \in {q \in ps : IsPrefix(q, s)}}

\* ([a-zA-Z0-9_-]{11}) at the head of s
HasIdAt(s, i) ==
  /\ i + IdLen - 1 <= Len(s)
  /\ \A k \in i .. (i + IdLen - 1) : s[k] \in IdChar

\* ([&?].*)?$ applied to what follows the identifier
TailOk(t) ==
  \/ t = << >>
  \/ /\ t[1] \in {"&", "?"}
     /\ \A k \in 2 .. Len(t) : t[k] \notin LineTerminator

Schemes == { <<"h", "t", "t", "p", ":", "/", "/">>, <<"h", "t", "t", "p", "s", ":", "/", "/">> }
WwwPrefix == { <<"w", "w", "w", ".">> }
HostForms == { <<"y", "o", "u", "t", "u", "b", "e", ".", "c", "o", "m", "/", "w", "a", "t", "c", "h", "?", "v", "=">>, <<"y", "o", "u", "t", "u", ".", "b", "e", "/">> }

\* the remainders of url after (https?:\/\/)?(www\.)?(youtube\.com\/watch\?v=|youtu\.be\/)
\* from which the rest of YOUTUBE_URL_REGEX matches
UrlMatches(url) ==
  { s3 \in UNION { UNION { StripOne(s2, HostForms) : s2 \in StripOpt(s1, WwwPrefix) }
                   : s1 \in StripOpt(url, Schemes) } :
      HasIdAt(s3, 1) /\ TailOk(Drop(s3, IdLen)) }

\* isValidYouTubeUrl: YOUTUBE_URL_REGEX.test(url)
IsValidYouTubeUrl(url) == UrlMatches(url) # {}

\* a mutant of extractYouTubeVideoId: the identifier is cut from the end of the URL
ExtractYouTubeVideoIdFromEnd(url) ==
  IF UrlMatches(url) = {} THEN None
  ELSE SubSeq(url, Len(url) - IdLen + 1, Len(url))

\* extractYouTubeVideoId: match ? match[4] : null
ExtractYouTubeVideoId(url) ==
  IF UrlMatches(url) = {} THEN None
  ELSE SubSeq(CHOOSE s \in UrlMatches(url) : TRUE, 1, IdLen)

\* a mutant of the guard of extractAudio: no URL is rejected
ExtractRejectsNothing(url) == FALSE

\* extractAudio, lines 89-104: the URLs rejected before anything is spawned
ExtractRejects(url) ==
  ~IsValidYouTubeUrl(url) \/ ExtractYouTubeVideoId(url) = None

(* ------------------------------------------------------------------ *)
(* src/lib/youtube-audio-extractor.ts: the temporary path, the command *)
(* ------------------------------------------------------------------ *)
HexDigits == <<"0","1","2","3","4","5","6","7","8","9","a","b","c","d","e","f">>

\* Buffer.toString('hex'): two digits per byte
RECURSIVE ToHex(_)
ToHex(bytes) ==
  IF bytes = << >> THEN << >>
  ELSE << HexDigits[(Head(bytes) \div 16) + 1], HexDigits[(Head(bytes) % 16) + 1] >>
       \o ToHex(Tail(bytes))

\* randomBytes(8)
RandomByteCount == 8

\* config.audioFormat, default 'mp3'
AudioFormat == <<"m", "p", "3">>

\* `viajera_${videoId}_${randomId}.${this.config.audioFormat}`
\* a template literal's text of a value: "null" for null
TemplateText(v) == IF v = None THEN <<"n", "u", "l", "l">> ELSE v

\* a mutant of the file name: the random bytes are left out
TempFilenameOfVideo(videoId, randomId) ==
  <<"v", "i", "a", "j", "e", "r", "a", "_">> \o TemplateText(videoId) \o <<".">> \o AudioFormat

TempFilename(videoId, randomId) ==
  <<"v", "i", "a", "j", "e", "r", "a", "_">> \o TemplateText(videoId) \o <<"_">> \o randomId \o <<".">> \o AudioFormat

\* join(tempDir, filename), for a normalised tempDir without a trailing slash
TempPath(tempDir, videoId, randomId) ==
  tempDir \o <<"/">> \o TempFilename(videoId, randomId)

\* outputPath.replace(/'/g, "'\\''")
EscapeSingleQuotes(s) ==
  Concat([i \in 1 .. Len(s) |-> IF s[i] = "'" THEN <<"'", "\\", "'", "'">> ELSE <<s[i]>>])

\* `'${x}'`
Quoted(s) == <<"'">> \o s \o <<"'">>

\* the words of the command before the output path and the URL
\* (audioFormat 'mp3', audioQuality 'lowest')
FixedArgs ==
  << <<"y", "t", "-", "d", "l", "p">>, <<"-", "x">>, <<"-", "-", "a", "u", "d", "i", "o", "-", "f", "o", "r", "m", "a", "t">>, AudioFormat,
     <<"-", "-", "a", "u", "d", "i", "o", "-", "q", "u", "a", "l", "i", "t", "y">>, <<"1", "2", "8">>, <<"-", "f">>, <<"b", "e", "s", "t", "a", "u", "d", "i", "o", "[", "e", "x", "t", "=", "m", "p", "3", "]", "/", "b", "e", "s", "t">>,
     <<"-", "-", "q", "u", "i", "e", "t">>, <<"-", "-", "n", "o", "-", "w", "a", "r", "n", "i", "n", "g", "s">>, <<"-", "o">> >>

\* buildYtdlpCommand
BuildYtdlpCommand(youtubeUrl, outputPath) ==
  JoinSp(FixedArgs \o << Quoted(EscapeSingleQuotes(outputPath)), Quoted(youtubeUrl) >>)

(* ------------------------------------------------------------------ *)
(* exec(command): the command line as /bin/sh -c reads it              *)
(* ------------------------------------------------------------------ *)
\* characters that are shell syntax when they stand outside quotes
ShellMeta == {";", "&", "|", "<", ">", "(", ")", "$", "\n"}

\* The state of the shell's word splitting while it reads a command line:
\*   sq: inside single quotes;  esc: the next character is escaped by a backslash
\*   inWord: a word is open;  cur: its text so far;  words: the words read
\*   meta: some character was read as shell syntax
ShellStart ==
  [ sq |-> FALSE, esc |-> FALSE, inWord |-> FALSE, cur |-> << >>,
    words |-> << >>, meta |-> FALSE ]

\* one character read
ShellStep(st, c) ==
  IF st.sq
  THEN IF c = "'" THEN [st EXCEPT !.sq = FALSE]
                  ELSE [st EXCEPT !.cur = Append(@, c)]
  ELSE IF st.esc THEN [st EXCEPT !.esc = FALSE, !.inWord = TRUE, !.cur = Append(@, c)]
  ELSE IF c = "'" THEN [st EXCEPT !.sq = TRUE, !.inWord = TRUE]
  ELSE IF c = "\\" THEN [st EXCEPT !.esc = TRUE, !.inWord = TRUE]
  ELSE IF c = " " \/ c \in ShellMeta
    THEN [st EXCEPT !.inWord = FALSE, !.cur = << >>,
                    !.words = IF st.inWord THEN Append(@, st.cur) ELSE @,
                    !.meta = @ \/ c \in ShellMeta]
  ELSE [st EXCEPT !.inWord = TRUE, !.cur = Append(@, c)]

\* the characters lo .. hi read from state st, halving the range
RECURSIVE ShellScan(_, _, _, _)
ShellScan(cmd, lo, hi, st) ==
  IF lo > hi THEN st
  ELSE IF lo = hi THEN ShellStep(st, cmd[lo])
  ELSE LET mid  == (lo + hi) \div 2
           left == ShellScan(cmd, lo, mid, st)
       IN \* the left half is read (its value computed) before the right half
          IF left.words = << >> /\ left.cur = << >>
          THEN ShellScan(cmd, mid + 1, hi, left)
          ELSE ShellScan(cmd, mid + 1, hi, left)

\* the words of the command line, whether a character was read as shell syntax,
\* and whether a quote was left open at its end
ShellParse(cmd) ==
  LET st == ShellScan(cmd, 1, Len(cmd), ShellStart) IN
    [ words |-> IF st.inWord THEN Append(st.words, st.cur) ELSE st.words,
      meta  |-> st.meta,
      open  |-> st.sq \/ st.esc ]

(* ------------------------------------------------------------------ *)
(* Inputs                                                              *)
(* ------------------------------------------------------------------ *)
UrlWatch     == <<"h", "t", "t", "p", "s", ":", "/", "/", "w", "w", "w", ".", "y", "o", "u", "t", "u", "b", "e", ".", "c", "o", "m", "/", "w", "a", "t", "c", "h", "?", "v", "=", "d", "Q", "w", "4", "w", "9", "W", "g", "X", "c", "Q">>
UrlShort     == <<"h", "t", "t", "p", "s", ":", "/", "/", "y", "o", "u", "t", "u", ".", "b", "e", "/", "d", "Q", "w", "4", "w", "9", "W", "g", "X", "c", "Q">>
UrlBare      == <<"y", "o", "u", "t", "u", ".", "b", "e", "/", "a", "_", "b", "-", "c", "_", "d", "-", "e", "_", "f">>
UrlWatchTime == <<"h", "t", "t", "p", "s", ":", "/", "/", "w", "w", "w", ".", "y", "o", "u", "t", "u", "b", "e", ".", "c", "o", "m", "/", "w", "a", "t", "c", "h", "?", "v", "=", "d", "Q", "w", "4", "w", "9", "W", "g", "X", "c", "Q", "&", "t", "=", "4", "2">>
UrlOther     == <<"h", "t", "t", "p", "s", ":", "/", "/", "e", "x", "a", "m", "p", "l", "e", ".", "c", "o", "m", "/", "v", "i", "d", "e", "o">>
UrlShortId   == <<"y", "o", "u", "t", "u", ".", "b", "e", "/", "d", "Q", "w", "4", "w", "9", "W", "g", "X", "c">>
UrlLongId    == <<"y", "o", "u", "t", "u", ".", "b", "e", "/", "d", "Q", "w", "4", "w", "9", "W", "g", "X", "c", "Q", "0">>
UrlQuoteTail == <<"y", "o", "u", "t", "u", ".", "b", "e", "/", "d", "Q", "w", "4", "w", "9", "W", "g", "X", "c", "Q", "?", "'", ";", "i", "d", ";", "'">>
UrlOneQuote  == <<"h", "t", "t", "p", ":", "/", "/", "w", "w", "w", ".", "y", "o", "u", "t", "u", ".", "b", "e", "/", "d", "Q", "w", "4", "w", "9", "W", "g", "X", "c", "Q", "?", "i", "t", "'", "s">>
UrlDollar    == <<"y", "o", "u", "t", "u", ".", "b", "e", "/", "d", "Q", "w", "4", "w", "9", "W", "g", "X", "c", "Q", "&", "x", "=", "$", "(", "i", "d", ")">>
UrlNewline   == <<"y", "o", "u", "t", "u", ".", "b", "e", "/", "d", "Q", "w", "4", "w", "9", "W", "g", "X", "c", "Q", "?", "a", "\n", "b">>
UrlQuoteId   == <<"y", "o", "u", "t", "u", ".", "b", "e", "/", "d", "Q", "w", "4", "w", "9", "W", "g", "X", "c", "Q", "'", ";", "i", "d">>
UrlPrefixed  == <<"x", "h", "t", "t", "p", "s", ":", "/", "/", "y", "o", "u", "t", "u", ".", "b", "e", "/", "d", "Q", "w", "4", "w", "9", "W", "g", "X", "c", "Q">>

AllUrls == { UrlWatch, UrlShort, UrlBare, UrlWatchTime, UrlOther, UrlShortId,
             UrlLongId, UrlQuoteTail, UrlOneQuote, UrlDollar, UrlNewline,
             UrlQuoteId, UrlPrefixed }

\* values of os.tmpdir(): it follows the environment (TMPDIR)
TempDirs == { <<"/", "t", "m", "p">>, <<"/", "v", "a", "r", "/", "m", "y", " ", "t", "m", "p">>, <<"/", "t", "'", "m", "p">> }

\* values of randomBytes(8)
RandomDraws == { <<0, 0, 0, 0, 0, 0, 0, 1>>, <<222, 173, 190, 239, 0, 16, 255, 9>> }


(* ------------------------------------------------------------------ *)
(* src/app/api/export/pdf/route.ts, lines 255-449: GroqClient          *)
(* ------------------------------------------------------------------ *)
\* retryConfig
MaxAttempts == 3
BaseDelayMs == 1000
MaxDelayMs == 10000

\* Math.random() is drawn as u / RandomSteps, u in 0 .. RandomSteps - 1
RandomSteps == 4

RandomUnits == 0 .. (RandomSteps - 1)

GroqErrorCode ==
  { "GROQ_AUTH_ERROR", "RATE_LIMIT", "FILE_TOO_LARGE", "UNSUPPORTED_FORMAT",
    "SERVER_ERROR", "TIMEOUT", "UNKNOWN_ERROR" }

\* What a failed service call throws, as the signals classifyError reads:
\*   api: error instanceof Groq.APIError;  status: error.status (0: undefined)
\*   msg: what error.message includes;  name: error.name;  code: error.code
HttpStatuses == {0, 400, 401, 403, 413, 429, 500, 503}

ServiceErrors ==
  [ api : BOOLEAN, status : HttpStatuses, msg : {"unsupported", "format", "other"},
    name : {"TimeoutError", "Error"}, code : {"ECONNABORTED", "other"} ]

\* the transcripts the service returns ("": an empty transcript)
Transcripts == {"", "hola", "adios"}

Min(a, b) == IF a <= b THEN a ELSE b

RECURSIVE Pow2(_)
Pow2(n) == IF n = 0 THEN 1 ELSE 2 * Pow2(n - 1)

\* getBackoffDelay, lines 314-317: the delay before the jitter
CappedDelay(attempt) == Min(BaseDelayMs * Pow2(attempt), MaxDelayMs)

\* a mutant of getBackoffDelay: the jitter is half of the delay
GetBackoffDelayWideJitter(attempt, u1, u2) ==
  LET delay  == Min(BaseDelayMs * Pow2(attempt), MaxDelayMs)
      jitter == (delay * 5 * u1) \div (10 * RandomSteps)
  IN IF 2 * u2 > RandomSteps THEN delay + jitter ELSE delay - jitter

\* getBackoffDelay: u1 is the draw of the jitter's size, u2 the draw of its sign
GetBackoffDelay(attempt, u1, u2) ==
  LET delay  == Min(BaseDelayMs * Pow2(attempt), MaxDelayMs)
      jitter == (delay * 2 * u1) \div (10 * RandomSteps)
  IN IF 2 * u2 > RandomSteps THEN delay + jitter ELSE delay - jitter

\* a mutant of classifyError: the message is looked at before the 5xx status
ClassifyErrorMessageFirst(e) ==
  IF e.api /\ e.status \in {401, 403} THEN "GROQ_AUTH_ERROR"
  ELSE IF e.api /\ e.status = 429 THEN "RATE_LIMIT"
  ELSE IF e.api /\ e.status = 413 THEN "FILE_TOO_LARGE"
  ELSE IF e.api /\ e.msg \in {"unsupported", "format"} THEN "UNSUPPORTED_FORMAT"
  ELSE IF e.api /\ e.status # 0 /\ e.status >= 500 THEN "SERVER_ERROR"
  ELSE IF e.name = "TimeoutError" \/ e.code = "ECONNABORTED" THEN "TIMEOUT"
  ELSE "UNKNOWN_ERROR"

\* classifyError
ClassifyError(e) ==
  IF e.api /\ e.status \in {401, 403} THEN "GROQ_AUTH_ERROR"
  ELSE IF e.api /\ e.status = 429 THEN "RATE_LIMIT"
  ELSE IF e.api /\ e.status = 413 THEN "FILE_TOO_LARGE"
  ELSE IF e.api /\ e.status # 0 /\ e.status >= 500 THEN "SERVER_ERROR"
  ELSE IF e.api /\ e.msg \in {"unsupported", "format"} THEN "UNSUPPORTED_FORMAT"
  ELSE IF e.name = "TimeoutError" \/ e.code = "ECONNABORTED" THEN "TIMEOUT"
  ELSE "UNKNOWN_ERROR"

\* a mutant of the no-retry test: a payload-too-large error is retried
IsPermanentWithoutFileSize(errorCode) ==
  errorCode \in {"GROQ_AUTH_ERROR", "UNSUPPORTED_FORMAT"}

\* transcribe, lines 397-401: the codes that are not retried
IsPermanent(errorCode) ==
  errorCode \in {"GROQ_AUTH_ERROR", "UNSUPPORTED_FORMAT", "FILE_TOO_LARGE"}

\* a mutant of isLastAttempt: off by one
IsLastAttemptLate(attempt) == attempt = tMaxAttempts

\* transcribe, line 384: isLastAttempt
IsLastAttempt(attempt) == attempt = tMaxAttempts - 1


(* ------------------------------------------------------------------ *)
(* src/app/api/process-youtube-decimas/route.ts: helpers               *)
(* ------------------------------------------------------------------ *)
SetMin(S) == CHOOSE x \in S : \A y \in S : x <= y

\* String.prototype.trim, for the white space the inputs hold
RECURSIVE Trim(_)
Trim(s) ==
  IF s = << >> THEN s
  ELSE IF Head(s) = " " THEN Trim(Tail(s))
  ELSE IF s[Len(s)] = " " THEN Trim(SubSeq(s, 1, Len(s) - 1))
  ELSE s

\* s.split(',')[0]
FirstField(s) ==
  LET commas == {i \in 1 .. Len(s) : s[i] = ","}
  IN IF commas = {} THEN s ELSE SubSeq(s, 1, SetMin(commas) - 1)

\* a request header: has = FALSE when headers.get returns null
NoHeader == [has |-> FALSE, v |-> << >>]
Header(v) == [has |-> TRUE, v |-> v]

Unknown == <<"u", "n", "k", "n", "o", "w", "n">>

\* a mutant of getClientIp: x-real-ip is looked at before x-forwarded-for
GetClientIpRealIpFirst(xff, xri) ==
  IF xri.has /\ xri.v # << >> THEN xri.v
  ELSE IF xff.has /\ Trim(FirstField(xff.v)) # << >> THEN Trim(FirstField(xff.v))
  ELSE Unknown

\* getClientIp: x-forwarded-for's first entry, else x-real-ip, else 'unknown'
GetClientIp(xff, xri) ==
  IF xff.has /\ Trim(FirstField(xff.v)) # << >> THEN Trim(FirstField(xff.v))
  ELSE IF xri.has /\ xri.v # << >> THEN xri.v
  ELSE Unknown

\* getCacheKey
GetCacheKey(videoId) == <<"v", "i", "a", "j", "e", "r", "a", ":", "t", "r", "a", "n", "s", "c", "r", "i", "p", "t", ":">> \o videoId

\* line 103: the positions where /[?&]v=([a-zA-Z0-9_-]{11})|youtu\.be\/([a-zA-Z0-9_-]{11})/
\* matches, with the start of the identifier
VideoIdMatchAt(url, i) ==
  IF /\ i + 2 <= Len(url) /\ url[i] \in {"?", "&"} /\ url[i + 1] = "v" /\ url[i + 2] = "="
     /\ HasIdAt(url, i + 3)
  THEN i + 3
  ELSE IF IsPrefix(<<"y", "o", "u", "t", "u", ".", "b", "e", "/">>, Drop(url, i - 1)) /\ HasIdAt(url, i + 9)
  THEN i + 9
  ELSE 0

\* lines 103-104: url.match(...): the leftmost match's identifier, or null
PostVideoId(url) ==
  LET at == {i \in 1 .. Len(url) : VideoIdMatchAt(url, i) # 0}
  IN IF at = {} THEN None
     ELSE LET k == VideoIdMatchAt(url, SetMin(at)) IN SubSeq(url, k, k + IdLen - 1)

\* Ratelimit.slidingWindow(10, '60 s')
Capacity == 10
WindowSec == 60

\* config.timeoutMs: 300000 ms
TimeoutSec == 300

\* The limiter's answer for a client whose admitted requests are stamped in log:
\* a request is admitted while fewer than Capacity admitted requests lie in the
\* window that ends now (the sliding window of the specification, section 4.1).
WindowCount(log, t) == Cardinality({i \in 1 .. Len(log) : log[i] > t - WindowSec})

SlidingWindowLimit(log, t) ==
  [ success   |-> WindowCount(log, t) < Capacity,
    remaining |-> IF WindowCount(log, t) < Capacity
                  THEN Capacity - WindowCount(log, t) - 1 ELSE 0 ]

(* ------------------------------------------------------------------ *)
(* Bounds and inputs of the pipeline                                   *)
(* ------------------------------------------------------------------ *)
\* request handlers (and direct callers of extractAudio) in flight at once
Slots == {1, 2}

\* requests and direct calls started in one behaviour
MaxRequests == 2

\* requests started in one behaviour of the admission specification
MaxRateRequests == 12

\* steps of the clock in one behaviour of the pipeline
MaxTicks == 1

\* steps of the clock in one behaviour of the admission specification
MaxRateTicks == 1

\* the request bodies: json = FALSE when request.json() throws; type is the type of
\* body.url ("missing": undefined, "number": a number, "string": url holds the text)
BadJson == [json |-> FALSE, type |-> "missing", url |-> << >>]
NoUrl == [json |-> TRUE, type |-> "missing", url |-> << >>]
NumberUrl == [json |-> TRUE, type |-> "number", url |-> << >>]
StringUrl(u) == [json |-> TRUE, type |-> "string", url |-> u]

PipelineBodies ==
  { BadJson, NoUrl, NumberUrl, StringUrl(UrlWatch), StringUrl(UrlOther) }

PipelineHeaders ==
  { [xff |-> Header(<<"1", ".", "1", ".", "1", ".", "1", ",", " ", "2", ".", "2", ".", "2", ".", "2">>), xri |-> Header(<<"2", ".", "2", ".", "2", ".", "2">>)] }

\* a request that carries neither x-forwarded-for nor x-real-ip
NoHeaders == [xff |-> NoHeader, xri |-> NoHeader]

RateHeaders ==
  PipelineHeaders \cup
  { NoHeaders,
    [xff |-> NoHeader, xri |-> Header(<<"1", ".", "1", ".", "1", ".", "1">>)],
    [xff |-> Header(<<" ", "1", ".", "1", ".", "1", ".", "1", " ", ",", "3", ".", "3", ".", "3", ".", "3">>), xri |-> NoHeader] }

DirectUrls == { UrlWatch, UrlOther }

Identities == { GetClientIp(h.xff, h.xri) : h \in RateHeaders }

\* os.tmpdir() of the server process
ServerTempDir == <<"/", "t", "m", "p">>

VideoIds == { ExtractYouTubeVideoId(u) : u \in {v \in AllUrls : IsValidYouTubeUrl(v)} }

(* ------------------------------------------------------------------ *)
(* The pipeline: state                                                 *)
(* ------------------------------------------------------------------ *)
NoResult ==
  [ status |-> 0, success |-> FALSE, outcome |-> "none", error |-> "none",
    fromCache |-> FALSE, transcript |-> "", audioPath |-> None ]

\* A handler slot. pc is the await the handler stands at; trace lists the stages
\* it entered; deadline/armed are the timer of executeWithTimeout; retAt and
\* childAtRet are the time at which extractAudio returned and the state of the
\* downloader at that time; limitErr and lookupErr tell that ratelimit.limit and
\* redis.get threw; prior holds the identifiers whose runs had extracted
\* the audio and ended before this request arrived.
IdleReq ==
  [ pc |-> "Idle", kind |-> "none", headers |-> NoHeaders, ip |-> << >>, url |-> << >>,
    videoId |-> None,
    job |-> 0, deadline |-> 0, armed |-> FALSE, retAt |-> 0, childAtRet |-> "none",
    limitErr |-> FALSE, lookupErr |-> FALSE, extracted |-> FALSE, trace |-> << >>, prior |-> {},
    res |-> NoResult ]

\* the process while it serves
Running == [st |-> "running", signal |-> "none"]

InitPipeline ==
  /\ proc = Running
  /\ now = 0
  /\ ticks = 0
  /\ started = 0
  /\ req = [r \in Slots |-> IdleReq]
  /\ hits = [i \in Identities |-> << >>]
  /\ cache = [k \in {GetCacheKey(v) : v \in VideoIds} |-> [has |-> FALSE, v |-> ""]]
  /\ disk = {}
  /\ registry = {}
  /\ jobs = << >>
  /\ doneOk = {}

NoTranscription == [success |-> FALSE, code |-> "none", text |-> "", after |-> "none"]

\* the client at rest (in the specifications of the other components)
GroqIdle ==
  /\ tPc = "idle" /\ tAttempt = 0 /\ tCalls = 0
  /\ tCodes = << >> /\ tSleeps = << >> /\ tResult = NoTranscription
  /\ tMaxAttempts = MaxAttempts

\* the command builder at rest (in the specifications of the other components)
CmdIdle ==
  /\ cmdPc = "idle" /\ cmdUrl = << >> /\ cmdTempDir = << >>
  /\ cmdRandom = << >> /\ cmdPath = None /\ cmdLine = None

\* the result of callTranscriptionApi: { success, text, error, code }
NoCallResult == [success |-> FALSE, code |-> "none", text |-> ""]

\* no call of callTranscriptionApi is under way (in the other specifications)
CallIdle == ctPc = "idle" /\ ctEnv = << >> /\ ctOut = NoCallResult

\* no call of extractYouTubeVideoId is under way (in the other specifications)
IdIdle == idPc = "idle" /\ idUrl = << >> /\ idOut = None

\* no call of cleanupFile has been made
CleanupIdle == clCalls = << >>

\* classifyError and getBackoffDelay at rest (in the specifications of the other components)
ClassifyIdle == cePc = "idle" /\ ceError = None /\ ceCode = None
NoDelay == [delay |-> 0, out |-> 0]
BackoffIdle == bdPc = "idle" /\ bdAttempt = 0 /\ bdRandom = <<0, 0>> /\ bdDelay = NoDelay

Init ==
  /\ InitPipeline /\ CmdIdle /\ GroqIdle /\ CallIdle /\ IdIdle /\ CleanupIdle
  /\ ClassifyIdle /\ BackoffIdle

\* what a step of the pipeline leaves alone
PipelineFrame == UNCHANGED <<cmdVars, groqVars, callVars, idVars, clVars, ceVars, bdVars, proc>>

\* the response of the handler: NextResponse.json(...)
Response(status, outcome, error) ==
  [ status |-> status, success |-> status = 200, outcome |-> outcome, error |-> error,
    fromCache |-> FALSE, transcript |-> "", audioPath |-> None ]

\* the path of the extraction job of request record q
PathOf(q) == IF q.job = 0 THEN None ELSE jobs[q.job].path

Entered(q, stage) == [q EXCEPT !.trace = Append(@, stage)]

Finish(q, res) == [q EXCEPT !.pc = "Done", !.res = res, !.armed = FALSE]

(* ------------------------------------------------------------------ *)
(* The command builder on its own                                     *)
(* ------------------------------------------------------------------ *)
\* what a step of the command builder leaves alone
CmdFrame == UNCHANGED <<groqVars, pipeVars, callVars, idVars, clVars, ceVars, bdVars>>

InitCmd ==
  /\ InitPipeline
  /\ GroqIdle
  /\ CallIdle /\ IdIdle /\ CleanupIdle /\ ClassifyIdle /\ BackoffIdle
  /\ cmdPc = "input"
  /\ cmdUrl \in AllUrls
  /\ cmdTempDir \in TempDirs
  /\ cmdRandom \in RandomDraws
  /\ cmdPath = None
  /\ cmdLine = None

\* extractAudio, lines 87-104: the URL is rejected, no command is built
CmdReject ==
  /\ cmdPc = "input"
  /\ ExtractRejects(cmdUrl)
  /\ cmdPc' = "rejected"
  /\ UNCHANGED <<cmdUrl, cmdTempDir, cmdRandom, cmdPath, cmdLine>>
  /\ CmdFrame

\* extractAudio, lines 106-114: the temporary path and the command
CmdBuild ==
  /\ cmdPc = "input"
  /\ ~ExtractRejects(cmdUrl)
  /\ LET path == TempPath(cmdTempDir, ExtractYouTubeVideoId(cmdUrl), ToHex(cmdRandom))
     IN /\ cmdPath' = path
        /\ cmdLine' = BuildYtdlpCommand(cmdUrl, path)
  /\ cmdPc' = "built"
  /\ UNCHANGED <<cmdUrl, cmdTempDir, cmdRandom>>
  /\ CmdFrame

NextCmd == CmdReject \/ CmdBuild

SpecCmd == InitCmd /\ [][NextCmd]_vars

\* C9: the command of every accepted URL reads, in the shell, as the
\* fixed words followed by the output path and the URL, each one quoted word,
\* and none of their characters is read as shell syntax.
C9_EachOneQuotedWord ==
  cmdPc = "built" =>
    LET p == ShellParse(cmdLine) IN
      /\ p.words = FixedArgs \o <<cmdPath, cmdUrl>>
      /\ ~p.meta
      /\ ~p.open

\* the output path alone is one quoted word of the command, whatever it holds
PathIsOneQuotedWord ==
  cmdPc = "built" =>
    LET p == ShellParse(JoinSp(FixedArgs \o <<Quoted(EscapeSingleQuotes(cmdPath))>>)) IN
      /\ p.words = FixedArgs \o <<cmdPath>>
      /\ ~p.meta
      /\ ~p.open


(* ------------------------------------------------------------------ *)
(* One run of GroqClient.transcribe                                   *)
(* ------------------------------------------------------------------ *)
\* transcribe is entered: attempt = 0, before the loop's first test. The constructor
\* sets maxAttempts to MaxAttempts (line 304); the smaller caps are run as well.
InitGroq ==
  /\ tPc = "loop" /\ tAttempt = 0 /\ tCalls = 0
  /\ tCodes = << >> /\ tSleeps = << >> /\ tResult = NoTranscription
  /\ tMaxAttempts \in 1 .. MaxAttempts
  /\ CmdIdle
  /\ InitPipeline
  /\ CallIdle /\ IdIdle /\ CleanupIdle /\ ClassifyIdle /\ BackoffIdle

\* what a step of transcribe leaves alone
GroqFrame ==
  UNCHANGED <<cmdVars, pipeVars, callVars, idVars, clVars, ceVars, bdVars, tMaxAttempts>>

\* line 363: the loop's test; lines 427-432: the return after the loop
TLoopTest ==
  /\ tPc = "loop"
  /\ IF tAttempt < tMaxAttempts
     THEN tPc' = "call" /\ tResult' = tResult
     ELSE /\ tPc' = "returned"
          /\ tResult' = [success |-> FALSE, code |-> "UNKNOWN_ERROR", text |-> "",
                         after |-> "loop"]
  /\ UNCHANGED <<tAttempt, tCalls, tCodes, tSleeps>>
  /\ GroqFrame

\* lines 369-381: the service call returns a transcription
TCallReturns ==
  /\ tPc = "call"
  /\ \E text \in Transcripts :
       tResult' = [success |-> TRUE, code |-> "none", text |-> text, after |-> "call"]
  /\ tCalls' = tCalls + 1
  /\ tPc' = "returned"
  /\ UNCHANGED <<tAttempt, tCodes, tSleeps>>
  /\ GroqFrame

\* lines 382-424: the service call throws
TCallThrows ==
  /\ tPc = "call"
  /\ \E e \in ServiceErrors, u1 \in RandomUnits, u2 \in RandomUnits :
       LET errorCode == ClassifyError(e) IN
         /\ tCodes' = Append(tCodes, errorCode)
         /\ IF IsPermanent(errorCode) \/ IsLastAttempt(tAttempt)
            THEN /\ tResult' = [success |-> FALSE, code |-> errorCode, text |-> "",
                                after |-> "call"]
                 /\ tPc' = "returned"
                 /\ tSleeps' = tSleeps
            ELSE /\ tSleeps' = Append(tSleeps, GetBackoffDelay(tAttempt, u1, u2))
                 /\ tPc' = "sleep"
                 /\ tResult' = tResult
  /\ tCalls' = tCalls + 1
  /\ UNCHANGED tAttempt
  /\ GroqFrame

\* line 423: the sleep ends; line 363: attempt++
TWake ==
  /\ tPc = "sleep"
  /\ tAttempt' = tAttempt + 1
  /\ tPc' = "loop"
  /\ UNCHANGED <<tCalls, tCodes, tSleeps, tResult>>
  /\ GroqFrame

NextGroq == TLoopTest \/ TCallReturns \/ TCallThrows \/ TWake

SpecGroq == InitGroq /\ [][NextGroq]_vars

Last(s) == s[Len(s)]

\* the codes of the failures that the specification calls permanent, and the others
PermanentCodes == {"GROQ_AUTH_ERROR", "UNSUPPORTED_FORMAT", "FILE_TOO_LARGE"}
TransientCodes == {"RATE_LIMIT", "SERVER_ERROR", "TIMEOUT", "UNKNOWN_ERROR"}

\* C4: once an attempt has failed with AuthError, UnsupportedFormat or FileTooLarge,
\* transcribe has returned that error: that attempt was the last service call and no
\* sleep followed it; when it was the first attempt, exactly one call was made.
C4_PermanentFailsFast ==
  (tCodes # << >> /\ Last(tCodes) \in PermanentCodes) =>
     /\ tPc = "returned"
     /\ ~tResult.success
     /\ tResult.code = Last(tCodes)
     /\ tCalls = Len(tCodes)
     /\ Len(tSleeps) = Len(tCodes) - 1
     /\ (\A i \in 1 .. (Len(tCodes) - 1) : tCodes[i] \in TransientCodes)

\* a permanent failure of the first attempt: one call, no sleep, the error returned
C4_Witness ==
  /\ tPc = "returned" /\ tCalls = 1 /\ tSleeps = << >>
  /\ tCodes = << "FILE_TOO_LARGE" >> /\ tResult.code = "FILE_TOO_LARGE"

\* C5: when transcribe has returned and every service call failed with a transient
\* error, it made exactly maxAttempts calls and returns the last attempt's code.
C5_TransientExhausts ==
  (tPc = "returned" /\ ~tResult.success) =>
     ((\A i \in 1 .. Len(tCodes) : tCodes[i] \in TransientCodes) =>
        /\ tCalls = tMaxAttempts
        /\ Len(tCodes) = tMaxAttempts
        /\ tResult.code = tCodes[tMaxAttempts])

\* three transient failures with different codes: the last one is returned
C5_Witness ==
  /\ tPc = "returned" /\ tMaxAttempts = MaxAttempts /\ tCalls = MaxAttempts
  /\ tCodes = << "SERVER_ERROR", "RATE_LIMIT", "TIMEOUT" >>
  /\ tResult.code = "TIMEOUT"


(* ------------------------------------------------------------------ *)
(* src/lib/youtube-audio-extractor.ts: extractAudio                    *)
(* ------------------------------------------------------------------ *)
\* Line 165: this.callTranscriptionApi(audioPath). POST is a function of the module,
\* called without a receiver: `this` is undefined there (and callTranscriptionApi is
\* no property of anything), so evaluating the callee throws a TypeError before
\* anything is called. It is caught at line 212: lines 166-194 (the cleanup, the test
\* of the transcription's result, the cache write) are never reached.
CallTranscriptionApi(q) ==
  Finish(Entered(q, "Transcribe"), Response(500, "Unexpected", "TypeError"))

\* a mutant of the handler: the transcription is called whatever extractAudio returned
ExtractReturnsUnchecked(q, outcome, t, child) ==
  LET q1 == [q EXCEPT !.retAt = t, !.childAtRet = child, !.armed = FALSE,
                      !.extracted = (outcome = "Extracted")]
  IN IF q.kind = "direct"
       THEN Finish(q1, [Response(0, outcome, outcome)
                          EXCEPT !.success = (outcome = "Extracted"),
                                 !.audioPath = IF outcome = "Extracted" THEN PathOf(q) ELSE None])
     ELSE CallTranscriptionApi(q1)

\* What the caller makes of the result of extractAudio (outcome: "Extracted" or the
\* failure), at time t with the downloader in state child.
\*   a direct caller: the result itself;  POST: lines 140-165
ExtractReturns(q, outcome, t, child) ==
  LET q1 == [q EXCEPT !.retAt = t, !.childAtRet = child, !.armed = FALSE,
                      !.extracted = (outcome = "Extracted")]
  IN IF q.kind = "direct"
       THEN Finish(q1, [Response(0, outcome, outcome)
                          EXCEPT !.success = (outcome = "Extracted"),
                                 !.audioPath = IF outcome = "Extracted" THEN PathOf(q) ELSE None])
     ELSE IF outcome # "Extracted"
       THEN Finish(q1, Response(500, "ExtractFailed", outcome))
     ELSE CallTranscriptionApi(q1)

\* Line 108, crypto.randomBytes(8) of the j-th job, where the draws of different jobs
\* are taken to differ.
JobDraw(j) == [i \in 1 .. RandomByteCount |-> IF i = RandomByteCount THEN j % 256 ELSE 0]

\* a call is taken by the first of the free slots (0: none is free)
FreeSlot ==
  LET free == {s \in Slots : req[s].pc = "Idle"}
  IN IF free = {} THEN 0 ELSE SetMin(free)

\* Lines 84-123, entered by handler r whose record is q0: the URL is checked; on
\* success the path is drawn, the command is built, the timer is set (line 200) and
\* the downloader is spawned (line 204).
ExtractBegins(r, q0, draws) ==
  LET q == Entered(q0, "Extract") IN
    IF ExtractRejects(q.url)
    THEN /\ req' = [req EXCEPT ![r] = ExtractReturns(q, "InvalidUrl", now, "none")]
         /\ jobs' = jobs
    ELSE \E random \in draws :
           /\ jobs' = Append(jobs,
                        [ url  |-> q.url,
                          random |-> random,
                          path |-> TempPath(ServerTempDir, ExtractYouTubeVideoId(q.url),
                                            ToHex(random)),
                          st   |-> "running" ])
           /\ req' = [req EXCEPT ![r] =
                        [q EXCEPT !.pc = "AwaitExec", !.job = Len(jobs) + 1,
                                  !.deadline = now + TimeoutSec, !.armed = TRUE]]

\* extractAudio is called directly, by another caller than the pipeline; the random
\* bytes of line 108 are one of draws
DirectCall(r, urls, draws, limit) ==
  /\ r = FreeSlot
  /\ started < limit
  /\ \E u \in urls :
       ExtractBegins(r, [IdleReq EXCEPT !.kind = "direct", !.url = u], draws)
  /\ started' = started + 1
  /\ UNCHANGED <<now, ticks, hits, cache, disk, registry, doneOk>>
  /\ PipelineFrame

(* ------------------------------------------------------------------ *)
(* The pipeline: POST /api/process-youtube-decimas                     *)
(* ------------------------------------------------------------------ *)
\* a mutant of the admission test: the limiter's answer is not looked at
AdmittedAlways(answer) == TRUE

\* line 64: if (!rateLimitSuccess) return 429
Admitted(answer) == answer.success

\* Lines 76-114, for an admitted request with body b: await request.json(), the
\* checks of the url, the video id.
ParseBody(q, b) ==
  IF ~b.json
    THEN Finish(q, Response(500, "Unexpected", "json"))
  ELSE IF b.type # "string" \/ b.url = << >>
    THEN Finish(q, Response(400, "ValidationError", "url required"))
  ELSE IF ~IsValidYouTubeUrl(b.url)
    THEN Finish(q, Response(400, "ValidationError", "invalid url"))
  ELSE IF PostVideoId(b.url) = None
    THEN Finish(q, Response(400, "ValidationError", "no video id"))
  ELSE [q EXCEPT !.pc = "CacheLookup", !.videoId = PostVideoId(b.url)]

\* a mutant of the handler: an error of the limiter's store is answered as a denial
LimiterThrowsDenied(q) == Finish(q, Response(429, "RateLimited", "rate limit"))

\* lines 63 and 212-222: the error thrown by ratelimit.limit is caught by the
\* handler's catch and answered with status 500
LimiterThrows(q) == Finish(q, Response(500, "Unexpected", "limiter"))

\* Lines 57-114: a request arrives at an idle handler; await ratelimit.limit(clientIp):
\* the limiter's store answers or fails (a failure is thrown and caught at line 212);
\* then the body is read and checked.
Arrive(r, headers, bodies, limit) ==
  /\ r = FreeSlot
  /\ started < limit
  /\ \E h \in headers, b \in bodies, store \in {"answers", "fails"} :
       LET q      == [IdleReq EXCEPT !.kind = "http", !.headers = h,
                                     !.ip = GetClientIp(h.xff, h.xri),
                                     !.prior = doneOk, !.trace = << "RateCheck" >>]
           answer == SlidingWindowLimit(hits[q.ip], now)
       IN IF store = "fails"
          THEN /\ req' = [req EXCEPT ![r] = LimiterThrows([q EXCEPT !.limitErr = TRUE])]
               /\ hits' = hits
               /\ started' = started
          ELSE /\ hits' = IF answer.success
                          THEN [hits EXCEPT ![q.ip] = Append(@, now)] ELSE hits
               /\ req' = [req EXCEPT ![r] =
                            IF Admitted(answer)
                            THEN ParseBody([q EXCEPT !.url = b.url], b)
                            ELSE Finish(q, Response(429, "RateLimited", "rate limit"))]
               /\ started' = IF answer.success THEN started + 1 ELSE started
  /\ UNCHANGED <<now, ticks, cache, disk, registry, jobs, doneOk>>
  /\ PipelineFrame

\* a mutant of the lookup's catch: the error of the store reaches line 212
CacheLookupThrowsUncaught(q) == Finish(q, Response(500, "Unexpected", "cache"))

\* lines 128-130: the error of redis.get is logged; transcript stays null
CacheLookupThrows(q) == q

\* Lines 117-138 (on a hit, 197-211): await redis.get(cacheKey); on a miss or an
\* error of the store, extractAudio is entered.
CacheLookup(r) ==
  /\ req[r].pc = "CacheLookup"
  /\ \E store \in {"answers", "fails"} :
       LET q     == [Entered(req[r], "CacheLookup") EXCEPT !.lookupErr = (store = "fails")]
           entry == cache[GetCacheKey(q.videoId)]
       IN IF store = "fails"
          THEN IF CacheLookupThrows(q).pc = "Done"
               THEN req' = [req EXCEPT ![r] = CacheLookupThrows(q)] /\ jobs' = jobs
               ELSE ExtractBegins(r, CacheLookupThrows(q), {JobDraw(Len(jobs) + 1)})
          ELSE IF entry.has /\ entry.v # ""
               THEN /\ req' = [req EXCEPT ![r] =
                                 Finish(q, [Response(200, "CacheHit", "none")
                                              EXCEPT !.fromCache = TRUE, !.transcript = entry.v])]
                    /\ jobs' = jobs
               ELSE ExtractBegins(r, q, {JobDraw(Len(jobs) + 1)})
  /\ UNCHANGED <<now, ticks, started, hits, cache, disk, registry, doneOk>>
  /\ PipelineFrame

\* the downloader writes its output file
ChildWrites(j) ==
  /\ j \in 1 .. Len(jobs)
  /\ jobs[j].st = "running"
  /\ jobs[j].path \notin disk
  /\ disk' = disk \cup {jobs[j].path}
  /\ UNCHANGED <<now, ticks, started, req, hits, cache, registry, jobs, doneOk>>
  /\ PipelineFrame

\* the downloader exits, with code 0 or not
ChildExits(j) ==
  /\ j \in 1 .. Len(jobs)
  /\ jobs[j].st = "running"
  /\ \E st \in {"exit0", "exitErr"} : jobs' = [jobs EXCEPT ![j].st = st]
  /\ UNCHANGED <<now, ticks, started, req, hits, cache, disk, registry, doneOk>>
  /\ PipelineFrame

\* a mutant of the handler's end: a run that ends without a transcript still stores
\* an (empty) entry for its identifier
CacheWrittenOnFailure(q) ==
  IF q.kind = "http" /\ q.pc = "Done" /\ q.videoId # None
  THEN [cache EXCEPT ![GetCacheKey(q.videoId)] = [has |-> TRUE, v |-> ""]]
  ELSE cache

\* The cache store after extractAudio has returned to the handler that then stands as
\* q: the only write, redis.setex of line 190, lies behind line 165, so every way out
\* (lines 140-160, and the catch of line 212) leaves the store as it is.
CacheWritten(q) == cache

\* the identifiers whose runs have extracted the audio and have ended
DoneOkAfter(q) ==
  IF q.kind = "http" /\ q.pc = "Done" /\ q.extracted THEN doneOk \cup {q.videoId} ELSE doneOk

\* a mutant of extractAudio: the output file is not looked for
SettledOutcomeUnverified(st, onDisk) ==
  IF st = "exitErr" THEN "ProcessError" ELSE "Extracted"

\* Lines 119-158: what extractAudio returns once exec has settled with the downloader
\* in state st: a non-zero exit rejects and is caught at line 151; after exit 0,
\* existsSync(audioPath) (line 130) decides.
SettledOutcome(st, onDisk) ==
  IF st = "exitErr" THEN "ProcessError"
  ELSE IF ~onDisk THEN "OutputMissing"
  ELSE "Extracted"

\* a mutant of extractAudio: the path is returned without being registered
RegisteredNever(outcome, path) == registry

\* line 140: this.tempFilesToCleanup.add(audioPath), on the way to the success return
Registered(outcome, path) ==
  IF outcome = "Extracted" THEN registry \cup {path} ELSE registry

\* Lines 205-212 and 125-158: the callback of exec runs after the downloader's exit:
\* the timer is cleared; exit 0 resolves (then existsSync decides), another exit
\* rejects and is caught at line 151.
ExecSettles(r) ==
  /\ req[r].pc = "AwaitExec"
  /\ jobs[req[r].job].st # "running"
  /\ LET q       == req[r]
         job     == jobs[q.job]
         outcome == SettledOutcome(job.st, job.path \in disk)
         q2      == ExtractReturns(q, outcome, now, job.st)
     IN /\ req' = [req EXCEPT ![r] = q2]
        /\ registry' = Registered(outcome, job.path)
        /\ doneOk' = DoneOkAfter(q2)
        /\ cache' = CacheWritten(q2)
  /\ UNCHANGED <<now, ticks, started, hits, disk, jobs>>
  /\ PipelineFrame

\* a mutant of the timer's callback: it does not reject the promise
TimerFiresQuietly(r) ==
  /\ req[r].pc = "AwaitExec"
  /\ req[r].armed
  /\ now >= req[r].deadline
  /\ req' = [req EXCEPT ![r].armed = FALSE]
  /\ UNCHANGED <<now, ticks, started, hits, cache, disk, registry, jobs, doneOk>>
  /\ PipelineFrame

\* Lines 200-202 and 151-157: the timer fires while exec has not settled: the promise
\* is rejected, extractAudio returns the failure. The downloader is left as it is.
TimerFires(r) ==
  /\ req[r].pc = "AwaitExec"
  /\ req[r].armed
  /\ now >= req[r].deadline
  /\ req' = [req EXCEPT ![r] =
               ExtractReturns(req[r], "Timeout", now, jobs[req[r].job].st)]
  /\ cache' = CacheWritten(req'[r])
  /\ UNCHANGED <<now, ticks, started, hits, disk, registry, jobs, doneOk>>
  /\ PipelineFrame

\* the response (or the result) has been delivered: the handler is free again
Release(r) ==
  /\ req[r].pc = "Done"
  /\ req' = [req EXCEPT ![r] = IdleReq]
  /\ UNCHANGED <<now, ticks, started, hits, cache, disk, registry, jobs, doneOk>>
  /\ PipelineFrame

\* Time passes, by one of the steps ds, but not beyond a timer that is set: a timer's
\* callback runs when its delay has elapsed.
Tick(ds, limit) ==
  /\ ticks < limit
  /\ \E d \in ds :
       LET armed == {req[r].deadline : r \in {s \in Slots : req[s].armed}}
           t     == IF armed = {} THEN now + d ELSE Min(now + d, SetMin(armed))
       IN t > now /\ now' = t
  /\ ticks' = ticks + 1
  /\ UNCHANGED <<started, req, hits, cache, disk, registry, jobs, doneOk>>
  /\ PipelineFrame

Next ==
  \/ \E r \in Slots : Arrive(r, PipelineHeaders, PipelineBodies, MaxRequests)
  \/ \E r \in Slots : CacheLookup(r)
  \/ \E r \in Slots : DirectCall(r, DirectUrls, {JobDraw(Len(jobs) + 1)}, MaxRequests)
  \/ \E j \in 1 .. MaxRequests : ChildWrites(j)
  \/ \E j \in 1 .. MaxRequests : ChildExits(j)
  \/ \E r \in Slots : ExecSettles(r)
  \/ \E r \in Slots : TimerFires(r)
  \/ \E r \in Slots : Release(r)
  \/ Tick(IF \E r \in Slots : req[r].armed THEN {TimeoutSec} ELSE {}, MaxTicks)

Spec == Init /\ [][Next]_vars

\* The admission check on its own: requests without a url, which end at line 81.
NextRate ==
  \/ Arrive(1, RateHeaders, {NoUrl}, MaxRateRequests)
  \/ Release(1)
  \/ Tick({WindowSec - 1, WindowSec}, MaxRateTicks)

SpecRate == Init /\ [][NextRate]_vars

(* ------------------------------------------------------------------ *)
(* Properties of the pipeline                                          *)
(* ------------------------------------------------------------------ *)
Handled == {r \in Slots : req[r].kind = "http" /\ req[r].pc = "Done"}

Occurrences(trace, stage) == Cardinality({k \in 1 .. Len(trace) : trace[k] = stage})

\* C1: in every request whose extraction succeeded, the cleanup of the extracted
\* path is entered exactly once before the outcome is returned, and after the
\* transcription call.
C1_CleanupOnceAfterTranscribe ==
  \A r \in Handled :
    req[r].extracted =>
      /\ Occurrences(req[r].trace, "Cleanup") = 1
      /\ \E i, k \in 1 .. Len(req[r].trace) :
           i < k /\ req[r].trace[i] = "Transcribe" /\ req[r].trace[k] = "Cleanup"

\* C2: when a request has reached its outcome, the temporary file of its extraction
\* job is not on disk.
C2_NoTempFileAtOutcome ==
  \A r \in Handled : req[r].job # 0 => PathOf(req[r]) \notin disk

InWindow(i, t) == {k \in 1 .. Len(hits[i]) : hits[i][k] > t - WindowSec /\ hits[i][k] <= t}

\* the admission check of handler r has answered in this step
Answered(r) ==
  /\ req[r].pc = "Idle"
  /\ req'[r].kind = "http"
  /\ ~req'[r].limitErr

\* C6: no window of 60 s holds more than 10 admitted requests of one identity; a
\* request that finds 10 admitted requests of its identity in the window is denied
\* with status 429 and leaves every log as it is, and a request that finds fewer is
\* admitted, whatever the logs of the other identities hold.
C6_WindowNeverExceedsCapacity ==
  /\ [](\A i \in Identities : \A k \in 1 .. Len(hits[i]) :
          Cardinality(InWindow(i, hits[i][k])) <= Capacity)
  /\ [][\A r \in Slots :
          Answered(r) =>
            IF Cardinality(InWindow(req'[r].ip, now)) >= Capacity
            THEN req'[r].res.status = 429 /\ hits' = hits
            ELSE /\ req'[r].res.status # 429
                 /\ hits' = [hits EXCEPT ![req'[r].ip] = Append(@, now)]]_vars

\* an identity is denied its 11th request of the window, in which another identity
\* has been admitted
C6_Witness ==
  \E r \in Handled :
    /\ req[r].res.status = 429
    /\ Cardinality(InWindow(req[r].ip, now)) = Capacity
    /\ \E j \in Identities \ {req[r].ip} : InWindow(j, now) # {}

\* the URLs of the recognized grammar, and the URLs that isValidYouTubeUrl accepts,
\* among the inputs and the empty text of a request without a url
Recognized == {u \in AllUrls \cup {<< >>} : UrlMatches(u) # {}}
Validated == {u \in AllUrls \cup {<< >>} : IsValidYouTubeUrl(u)}

\* C7: a URL outside the grammar is not valid, and no downloader is spawned for it:
\* every spawned job carries a URL of the grammar, a direct call with another URL
\* returns InvalidUrl without a job, a request with another URL ends without a job
\* and without entering the extraction.
C7_InvalidUrlSpawnsNothing ==
  /\ Validated \subseteq Recognized
  /\ \A j \in 1 .. Len(jobs) : jobs[j].url \in Recognized
  /\ \A r \in Slots :
       (req[r].pc # "Idle" /\ req[r].url \notin Recognized) =>
         /\ req[r].job = 0
         /\ req[r].pc = "Done"
         /\ req[r].kind = "direct" => req[r].res.outcome = "InvalidUrl"
         /\ req[r].kind = "http" => Occurrences(req[r].trace, "Extract") = 0

\* a direct call and a request, each with a URL outside the grammar, have ended
C7_Witness ==
  \E r, s \in Slots :
    /\ req[r].kind = "direct" /\ req[r].url = UrlOther /\ req[r].res.outcome = "InvalidUrl"
    /\ req[s].kind = "http" /\ req[s].url = UrlOther /\ req[s].res.status = 400

C10_TimeoutReturnsAtDeadline ==
  \A r \in Slots :
    /\ req[r].pc = "AwaitExec" => req[r].armed /\ now <= req[r].deadline
    /\ (req[r].pc = "Done" /\ req[r].job # 0 /\ req[r].childAtRet = "running") =>
         /\ req[r].res.error = "Timeout"
         /\ ~req[r].res.success
         /\ req[r].retAt = req[r].deadline

\* extractAudio has returned the timeout failure, and the downloader still runs
C10_Witness ==
  \E r \in Slots :
    /\ req[r].pc = "Done" /\ req[r].res.error = "Timeout"
    /\ req[r].retAt = req[r].deadline /\ now = req[r].deadline
    /\ jobs[req[r].job].st = "running"

\* C11: once extractAudio has returned its timeout failure, the downloader of that
\* job runs no more.
C11_TimeoutTerminatesDownloader ==
  \A r \in Slots :
    (req[r].pc = "Done" /\ req[r].res.error = "Timeout") =>
       jobs[req[r].job].st # "running"

FailedOutcomes ==
  {"RateLimited", "ValidationError", "ExtractFailed", "TranscribeFailed", "Unexpected"}

\* C13: a cache entry exists only under the key of an identifier for which a request
\* has written the text of its successful transcription, and a step in which a request
\* ends rate limited, rejected by the validation, or with a failed extraction or
\* transcription leaves the cache as it is.
C13_CacheOnlyAfterTranscription ==
  /\ [](\A id \in VideoIds :
          cache[GetCacheKey(id)].has =>
            \E r \in Handled :
              /\ req[r].videoId # None
              /\ req[r].videoId = id
              /\ req[r].res.outcome = "Success"
              /\ req[r].res.transcript = cache[GetCacheKey(id)].v)
  /\ [][\A r \in Slots :
          (req[r].pc # "Done" /\ req'[r].pc = "Done" /\ req'[r].kind = "http"
             /\ req'[r].res.outcome \in FailedOutcomes) => cache' = cache]_vars

\* a request has ended with a failed extraction, one with a rejected url, and the
\* cache holds no entry
C13_Witness ==
  /\ \E r \in Handled : req[r].res.outcome = "ExtractFailed" /\ req[r].job # 0
  /\ \E r \in Handled : req[r].res.outcome = "ValidationError"
  /\ \A id \in VideoIds : ~cache[GetCacheKey(id)].has

\* the stages of a request, in the order of the pipeline
StageRank(stage) ==
  CASE stage = "RateCheck" -> 1
    [] stage = "CacheLookup" -> 2
    [] stage = "Extract" -> 3
    [] stage = "Transcribe" -> 4
    [] stage = "Cleanup" -> 5
    [] stage = "CacheWrite" -> 6

\* C14: the stages a request has entered are in the order RateCheck, CacheLookup,
\* Extract, Transcribe, Cleanup, CacheWrite, each at most once; a denied request has
\* entered no stage after RateCheck, a request answered from the cache none after
\* CacheLookup, a request whose extraction failed none after Extract, a request
\* whose transcription failed no CacheWrite.
C14_StagesInOrder ==
  \A r \in Slots :
    req[r].kind = "http" =>
      LET trace == req[r].trace IN
        /\ \A i \in 1 .. Len(trace) : \A k \in 1 .. Len(trace) :
             i < k => StageRank(trace[i]) < StageRank(trace[k])
        /\ req[r].res.outcome = "RateLimited" => trace = << "RateCheck" >>
        /\ req[r].res.outcome = "CacheHit" => trace = << "RateCheck", "CacheLookup" >>
        /\ (req[r].pc = "Done" /\ Occurrences(trace, "Extract") = 1 /\ ~req[r].extracted)
             => trace = << "RateCheck", "CacheLookup", "Extract" >>
        /\ req[r].res.outcome = "TranscribeFailed" => Occurrences(trace, "CacheWrite") = 0

\* a request has entered the transcription after the three stages before it, and
\* another one has ended at its failed extraction
C14_Witness ==
  /\ \E r \in Handled :
       req[r].trace = << "RateCheck", "CacheLookup", "Extract", "Transcribe" >>
  /\ \E r \in Handled :
       req[r].res.outcome = "ExtractFailed"
         /\ req[r].trace = << "RateCheck", "CacheLookup", "Extract" >>

\* C15: the step in which a request is answered with a validation failure changes
\* nothing but the request: the limiter's log of the client, the cache, the disk, the
\* registry and the subprocesses are as before.
C15_ValidationFailureHasNoEffect ==
  [][\A r \in Slots :
       (req[r].pc = "Idle" /\ req'[r].res.outcome = "ValidationError") =>
          /\ hits' = hits
          /\ cache' = cache
          /\ disk' = disk
          /\ registry' = registry
          /\ jobs' = jobs]_vars

\* C16: a request whose admission check failed on the limiter's store has ended in an
\* error that is neither the denial (status 429, rate limited) nor a success, and it
\* has entered no stage after the admission check.
C16_LimiterFailureIsAnError ==
  \A r \in Slots :
    req[r].limitErr =>
      /\ req[r].pc = "Done"
      /\ req[r].res.status \notin {200, 429}
      /\ req[r].res.outcome \notin {"RateLimited", "Success", "CacheHit"}
      /\ ~req[r].res.success
      /\ req[r].trace = << "RateCheck" >>
      /\ req[r].job = 0

\* the admission check of a request has failed on the store; it is answered 500
C16_Witness ==
  \E r \in Handled : req[r].limitErr /\ req[r].res.status = 500

\* C17: when extractAudio has returned after the downloader's exit with code 0,
\* before the timeout has elapsed, and the output file is not on disk, it has returned
\* a failure, whose error is the missing output and neither the timeout nor the
\* process error, and the path is not in the registry.
C17_MissingOutputIsAFailure ==
  \A r \in Slots :
    (req[r].pc = "Done" /\ req[r].job # 0 /\ req[r].childAtRet = "exit0"
       /\ req[r].retAt < req[r].deadline /\ PathOf(req[r]) \notin disk) =>
      /\ ~req[r].extracted
      /\ ~req[r].res.success
      /\ req[r].res.error = "OutputMissing"
      /\ req[r].res.error \notin {"Timeout", "ProcessError"}
      /\ PathOf(req[r]) \notin registry

\* a direct call has returned the missing output after an exit with code 0
C17_Witness ==
  \E r \in Slots :
    /\ req[r].kind = "direct" /\ req[r].pc = "Done" /\ req[r].childAtRet = "exit0"
    /\ req[r].retAt < req[r].deadline
    /\ PathOf(req[r]) \notin disk /\ req[r].res.error = "OutputMissing"
    /\ PathOf(req[r]) \notin registry

(* ------------------------------------------------------------------ *)
(* callTranscriptionApi (route.ts, lines 229-267) and the route it     *)
(* calls, POST /api/transcribe-audio (src/unnamed/part_000)            *)
(* ------------------------------------------------------------------ *)
\* what GroqClient.transcribe returns to the route: a transcription, or a failure
\* with its classified code; code "thrown": getGroqClient or transcribe throws
GroqResults ==
  { [success |-> TRUE, code |-> "none", text |-> t] : t \in Transcripts } \cup
  { [success |-> FALSE, code |-> c, text |-> ""] : c \in GroqErrorCode \cup {"thrown"} }

\* the JSON body of a response of the route
RouteBody(success, code, text) == [success |-> success, code |-> code, text |-> text]

\* POST /api/transcribe-audio, lines 91-177, for the form data as the route finds it
\* (form: "throws" when request.formData() throws, "nofile", "badext", "toolarge",
\* "ok") and the result groq of the client
TranscribeAudioRoute(form, groq) ==
  IF form = "throws" THEN RouteBody(FALSE, "UNKNOWN_ERROR", "")
  ELSE IF form \in {"nofile", "badext"} THEN RouteBody(FALSE, "UNSUPPORTED_FORMAT", "")
  ELSE IF form = "toolarge" THEN RouteBody(FALSE, "FILE_TOO_LARGE", "")
  ELSE IF groq.code = "thrown" THEN RouteBody(FALSE, "UNKNOWN_ERROR", "")
  ELSE IF ~groq.success THEN RouteBody(FALSE, groq.code, "")
  ELSE RouteBody(TRUE, "none", groq.text)

\* What one call meets: readFile(audioPath) and fetch(...) return or throw, the
\* response's body is JSON or not (response.json() throws), and, behind fetch, the
\* route with the file callTranscriptionApi sends (its name ends in .mp3) and the
\* client's result.
CallEnvs ==
  [ read : {"ok", "throws"}, fetch : {"ok", "throws"}, body : {"json", "other"},
    form : {"ok", "toolarge", "throws"}, groq : GroqResults ]

\* the try block of callTranscriptionApi runs to its end
CallCompletes(env) == env.read = "ok" /\ env.fetch = "ok" /\ env.body = "json"

\* what a step of callTranscriptionApi leaves alone
CallFrame == UNCHANGED <<cmdVars, groqVars, pipeVars, idVars, clVars, ceVars, bdVars>>

InitCall ==
  /\ InitPipeline /\ CmdIdle /\ GroqIdle /\ IdIdle /\ CleanupIdle /\ ClassifyIdle /\ BackoffIdle
  /\ ctPc = "called"
  /\ ctEnv \in CallEnvs
  /\ ctOut = NoCallResult

\* lines 233-259: the file is read, the route answers: its success, text and code
CallReturns ==
  /\ ctPc = "called"
  /\ CallCompletes(ctEnv)
  /\ ctOut' = TranscribeAudioRoute(ctEnv.form, ctEnv.groq)
  /\ ctPc' = "returned"
  /\ UNCHANGED ctEnv
  /\ CallFrame

\* lines 260-266: readFile, fetch or response.json() has thrown
CallCatches ==
  /\ ctPc = "called"
  /\ ~CallCompletes(ctEnv)
  /\ ctOut' = [success |-> FALSE, code |-> "TRANSCRIPTION_FAILED", text |-> ""]
  /\ ctPc' = "returned"
  /\ UNCHANGED ctEnv
  /\ CallFrame

NextCall == CallReturns \/ CallCatches

SpecCall == InitCall /\ [][NextCall]_vars

\* C18: a failure that callTranscriptionApi hands to the pipeline carries one of the
\* seven codes of the taxonomy, and the code the client classified when the client
\* was called and failed.
C18_FailureCodeInTaxonomy ==
  (ctPc = "returned" /\ ~ctOut.success) =>
     /\ ctOut.code \in GroqErrorCode
     /\ (ctEnv.form = "ok" /\ ~ctEnv.groq.success /\ ctEnv.groq.code # "thrown")
          => ctOut.code = ctEnv.groq.code

(* ------------------------------------------------------------------ *)
(* extractYouTubeVideoId on its own                                    *)
(* ------------------------------------------------------------------ *)
\* tokens of 11 characters over [a-zA-Z0-9_-]
Tokens == { <<"d", "Q", "w", "4", "w", "9", "W", "g", "X", "c", "Q">>, <<"a", "-", "b", "_", "c", "-", "D", "_", "E", "-", "0">>, <<"_", "_", "_", "_", "_", "_", "_", "_", "_", "_", "_">> }

\* the parts of a URL of a recognized form around the token
FormSchemes == { << >>, <<"h", "t", "t", "p", ":", "/", "/">>, <<"h", "t", "t", "p", "s", ":", "/", "/">> }
FormWww == { << >>, <<"w", "w", "w", ".">> }
WatchForm == <<"y", "o", "u", "t", "u", "b", "e", ".", "c", "o", "m", "/", "w", "a", "t", "c", "h", "?", "v", "=">>
ShortForm == <<"y", "o", "u", "t", "u", ".", "b", "e", "/">>
FormTails ==
  { << >>, <<"&", "t", "=", "1", "0", "s">>, <<"?", "s", "i", "=", "a", "b", "c">>, <<"&", "v", "=", "A", "A", "A", "A", "A", "A", "A", "A", "A", "A", "A">>, <<"&", "l", "i", "s", "t", "=", "x", "'", "y">> }

FormUrl(scheme, www, form, token, tail) == scheme \o www \o form \o token \o tail

FormUrls ==
  { FormUrl(s, w, f, t, q) :
      s \in FormSchemes, w \in FormWww, f \in {WatchForm, ShortForm}, t \in Tokens,
      q \in FormTails }

\* what a step of extractYouTubeVideoId leaves alone
IdFrame == UNCHANGED <<cmdVars, groqVars, pipeVars, callVars, clVars, ceVars, bdVars>>

InitId ==
  /\ InitPipeline /\ CmdIdle /\ GroqIdle /\ CallIdle /\ CleanupIdle /\ ClassifyIdle /\ BackoffIdle
  /\ idPc = "called"
  /\ idUrl \in FormUrls \cup AllUrls
  /\ idOut = None

\* line 26, match is not null: match[4]
IdMatch ==
  /\ idPc = "called"
  /\ UrlMatches(idUrl) # {}
  /\ idOut' = ExtractYouTubeVideoId(idUrl)
  /\ idPc' = "returned"
  /\ UNCHANGED idUrl
  /\ IdFrame

\* line 26, match is null: null
IdNoMatch ==
  /\ idPc = "called"
  /\ UrlMatches(idUrl) = {}
  /\ idOut' = ExtractYouTubeVideoId(idUrl)
  /\ idPc' = "returned"
  /\ UNCHANGED idUrl
  /\ IdFrame

NextId == IdMatch \/ IdNoMatch

SpecId == InitId /\ [][NextId]_vars

\* C19: for a URL of the watch form or of the short form around a token, with or
\* without scheme, www prefix and trailing parameters, extractYouTubeVideoId returns
\* the token; for a URL that isValidYouTubeUrl rejects it returns null.
C19_IdentifierIsTheToken ==
  idPc = "returned" =>
    /\ \A s \in FormSchemes, w \in FormWww, f \in {WatchForm, ShortForm}, t \in Tokens,
          q \in FormTails :
         idUrl = FormUrl(s, w, f, t, q) => idOut = t
    /\ ~IsValidYouTubeUrl(idUrl) => idOut = None

\* the token has been returned for a short-form URL without scheme that carries
\* another v parameter behind it
C19_Witness ==
  /\ idPc = "returned"
  /\ idUrl = FormUrl(<< >>, << >>, ShortForm, <<"a", "-", "b", "_", "c", "-", "D", "_", "E", "-", "0">>, <<"&", "v", "=", "A", "A", "A", "A", "A", "A", "A", "A", "A", "A", "A">>)
  /\ idOut = <<"a", "-", "b", "_", "c", "-", "D", "_", "E", "-", "0">>

(* ------------------------------------------------------------------ *)
(* src/lib/youtube-audio-extractor.ts, lines 220-233: cleanupFile      *)
(* ------------------------------------------------------------------ *)
MaxCleanupCalls == 3

\* paths that extractAudio hands out
CleanupPaths ==
  { TempPath(ServerTempDir, ExtractYouTubeVideoId(UrlWatch), ToHex(d)) : d \in RandomDraws }

\* a mutant of cleanupFile's return value: an absent file counts as cleaned up
CleanupFileReturnsDone(existed, unlinked) == unlinked # "threw"

\* the value cleanupFile returns: true at line 225 only, after existsSync and unlink
CleanupFileReturns(existed, unlinked) == existed /\ unlinked = "ok"

\* a call of cleanupFile: its argument, the disk it found, what existsSync said, how
\* unlink settled, the value returned, whether the call raised, the disk it left
CleanupCall(path, pc, existed, unlinked, left) ==
  [path |-> path, pc |-> pc, found |-> disk, existed |-> existed, unlinked |-> unlinked,
   ret |-> CleanupFileReturns(existed, unlinked), raised |-> FALSE, left |-> left]

\* what a step of cleanupFile leaves alone
CleanupFrame ==
  UNCHANGED <<cmdVars, groqVars, callVars, idVars, ceVars, bdVars, now, ticks, started, req,
              hits, cache, jobs, doneOk, proc>>

\* files on disk and registered paths: a file is written before its path is
\* registered (line 140), and a registered file may be gone already
InitCleanup ==
  /\ CmdIdle /\ GroqIdle /\ CallIdle /\ IdIdle /\ CleanupIdle /\ ClassifyIdle /\ BackoffIdle
  /\ proc = Running
  /\ now = 0
  /\ ticks = 0
  /\ started = 0
  /\ req = [r \in Slots |-> IdleReq]
  /\ hits = [i \in Identities |-> << >>]
  /\ cache = [k \in {GetCacheKey(v) : v \in VideoIds} |-> [has |-> FALSE, v |-> ""]]
  /\ jobs = << >>
  /\ doneOk = {}
  /\ disk \in SUBSET CleanupPaths
  /\ registry \in SUBSET CleanupPaths

\* lines 222 and 228: existsSync is false, return false
CleanupFileAbsent(p) ==
  /\ Len(clCalls) < MaxCleanupCalls
  /\ p \notin disk
  /\ clCalls' = Append(clCalls, CleanupCall(p, "returned", FALSE, "none", disk))
  /\ UNCHANGED <<disk, registry>>
  /\ CleanupFrame

\* lines 222-223: existsSync is true, unlink is awaited
CleanupFileUnlinks(p) ==
  /\ Len(clCalls) < MaxCleanupCalls
  /\ p \in disk
  /\ clCalls' = Append(clCalls, CleanupCall(p, "unlinking", TRUE, "none", disk))
  /\ UNCHANGED <<disk, registry>>
  /\ CleanupFrame

\* lines 223-226: unlink resolves, the path leaves the registry, return true
UnlinkResolves(i) ==
  /\ clCalls[i].pc = "unlinking"
  /\ clCalls[i].path \in disk
  /\ disk' = disk \ {clCalls[i].path}
  /\ registry' = registry \ {clCalls[i].path}
  /\ clCalls' = [clCalls EXCEPT ![i] =
                   [@ EXCEPT !.pc = "returned", !.unlinked = "ok",
                             !.ret = CleanupFileReturns(clCalls[i].existed, "ok"),
                             !.left = disk']]
  /\ CleanupFrame

\* lines 223 and 229-232: unlink rejects (no permission, or the file went away while
\* the call waited), the catch returns false
UnlinkRejects(i) ==
  /\ clCalls[i].pc = "unlinking"
  /\ clCalls' = [clCalls EXCEPT ![i] =
                   [@ EXCEPT !.pc = "returned", !.unlinked = "threw",
                             !.ret = CleanupFileReturns(clCalls[i].existed, "threw"),
                             !.left = disk]]
  /\ UNCHANGED <<disk, registry>>
  /\ CleanupFrame

NextCleanup ==
  \/ \E p \in CleanupPaths : CleanupFileAbsent(p)
  \/ \E p \in CleanupPaths : CleanupFileUnlinks(p)
  \/ \E i \in DOMAIN clCalls : UnlinkResolves(i)
  \/ \E i \in DOMAIN clCalls : UnlinkRejects(i)

SpecCleanup == InitCleanup /\ [][NextCleanup]_vars

\* the calls of cleanupFile that have returned
ReturnedCalls == { i \in DOMAIN clCalls : clCalls[i].pc = "returned" }

\* the first call on its path
FirstOnPath(i) == \A j \in 1..(i - 1) : clCalls[j].path # clCalls[i].path

\* C20: cleanupFile is idempotent. A call on an existing path whose unlink resolves
\* has deleted the file and returns true; a call whose unlink rejects returns false;
\* every call on an absent path returns false and leaves the disk as it found it; no
\* call raises.
C20_CleanupIsIdempotent ==
  \A i \in ReturnedCalls :
    LET c == clCalls[i] IN
      /\ ~c.raised
      /\ (c.existed /\ c.unlinked = "ok") => (c.ret /\ c.path \notin c.left)
      /\ (c.existed /\ c.unlinked = "threw") => ~c.ret
      /\ ~c.existed => (~c.ret /\ c.left = c.found)

\* a first call deleted an existing file and returned true, and a later call on the
\* same path found it absent and returned false
C20_Witness ==
  \E i, j \in ReturnedCalls :
    /\ i < j
    /\ FirstOnPath(i)
    /\ clCalls[i].path = clCalls[j].path
    /\ clCalls[i].existed /\ clCalls[i].ret
    /\ ~clCalls[j].existed /\ ~clCalls[j].ret
    /\ clCalls[j].left = clCalls[j].found

\* C20 as stated: the first call on an existing path deletes the file and returns true
C20_FirstCallDeletesAndReturnsTrue ==
  \A i \in ReturnedCalls :
    (FirstOnPath(i) /\ clCalls[i].existed) =>
       (clCalls[i].ret /\ clCalls[i].path \notin clCalls[i].left)

(* ------------------------------------------------------------------ *)
(* The pipeline with its scheduling: every callback that is due runs   *)
(* ------------------------------------------------------------------ *)
MaxLiveRequests == 2

\* bodies of requests that end in the validation and of requests that reach extractAudio
LiveBodies == { NoUrl, StringUrl(UrlWatch) }

\* One handler takes the requests one after the other; the downloader of an earlier
\* request may still run. A timer is set for every job, and each step of time ends at
\* the deadline that is set, so time steps at most once for a job.
NextLive ==
  \/ Arrive(1, PipelineHeaders, LiveBodies, MaxLiveRequests)
  \/ CacheLookup(1)
  \/ \E j \in 1 .. MaxLiveRequests : ChildWrites(j)
  \/ \E j \in 1 .. MaxLiveRequests : ChildExits(j)
  \/ ExecSettles(1)
  \/ TimerFires(1)
  \/ Release(1)
  \/ Tick(IF req[1].armed THEN {TimeoutSec} ELSE {}, MaxLiveRequests)

\* The event loop runs a callback that is due: the answer or the failure of the cache
\* store, the callback of exec after the downloader's exit, the callback of the timer
\* once its delay has elapsed; and time passes. The downloader itself need not exit.
LiveFairness ==
  /\ \A r \in Slots : WF_vars(CacheLookup(r))
  /\ \A r \in Slots : WF_vars(ExecSettles(r))
  /\ \A r \in Slots : WF_vars(TimerFires(r))
  /\ WF_vars(Tick({TimeoutSec}, MaxLiveRequests))

SpecLive == Init /\ [][NextLive]_vars /\ LiveFairness

\* the status codes and the outcomes of the handler's responses
StructuredStatuses == {200, 400, 429, 500}
StructuredOutcomes ==
  {"Success", "CacheHit", "RateLimited", "ValidationError", "ExtractFailed",
   "TranscribeFailed", "Unexpected"}

\* C21: every request that a handler has taken is answered in the end, whatever the
\* downloader does; the answer is a response with a status and an outcome, and once
\* given it is not replaced by another one.
C21_EveryRequestAnswered ==
  /\ \A r \in Slots : (req[r].pc \notin {"Idle", "Done"}) ~> (req[r].pc = "Done")
  /\ [](\A r \in Slots :
          (req[r].pc = "Done" /\ req[r].kind = "http") =>
             /\ req[r].res.status \in StructuredStatuses
             /\ req[r].res.outcome \in StructuredOutcomes)
  /\ [][\A r \in Slots :
          req[r].pc = "Done" => (req'[r] = req[r] \/ req'[r] = IdleReq)]_vars

\* a request has been answered with the timeout while its downloader still runs
C21_Witness ==
  \E r \in Slots :
    /\ req[r].pc = "Done"
    /\ req[r].kind = "http"
    /\ req[r].res.error = "Timeout"
    /\ jobs[req[r].job].st = "running"

\* C22: once a call cleanupFile(path) has returned, path is not in the registry,
\* whether the file was deleted, was absent already, or could not be deleted.
C22_ReturnedPathNotRegistered ==
  \A i \in ReturnedCalls : clCalls[i].path \notin registry

(* ------------------------------------------------------------------ *)
(* src/app/api/export/pdf/route.ts, lines 326-350: classifyError       *)
(* ------------------------------------------------------------------ *)
\* what a step of classifyError leaves alone
ClassifyFrame ==
  UNCHANGED <<cmdVars, groqVars, pipeVars, callVars, idVars, clVars, bdVars>>

InitClassify ==
  /\ InitPipeline /\ CmdIdle /\ GroqIdle /\ CallIdle /\ IdIdle /\ CleanupIdle /\ BackoffIdle
  /\ cePc = "called"
  /\ ceError \in ServiceErrors
  /\ ceCode = None

\* lines 327-343: the error is a Groq.APIError and one of the five tests returns
ClassifyApiError ==
  /\ cePc = "called"
  /\ ceError.api
  /\ ClassifyError(ceError) \notin {"TIMEOUT", "UNKNOWN_ERROR"}
  /\ ceCode' = ClassifyError(ceError)
  /\ cePc' = "returned"
  /\ UNCHANGED ceError
  /\ ClassifyFrame

\* lines 345-349: no test of the APIError block has returned (or the error is none)
ClassifyOther ==
  /\ cePc = "called"
  /\ ClassifyError(ceError) \in {"TIMEOUT", "UNKNOWN_ERROR"}
  /\ ceCode' = ClassifyError(ceError)
  /\ cePc' = "returned"
  /\ UNCHANGED ceError
  /\ ClassifyFrame

NextClassify == ClassifyApiError \/ ClassifyOther

SpecClassify == InitClassify /\ [][NextClassify]_vars

\* The signals of a failure, in the order of priority, each with its code: the status
\* and the message are those of an error of the service's API.
PrioritySignals(e) ==
  << [holds |-> e.api /\ e.status \in {401, 403},              code |-> "GROQ_AUTH_ERROR"],
     [holds |-> e.api /\ e.status = 429,                       code |-> "RATE_LIMIT"],
     [holds |-> e.api /\ e.status = 413,                       code |-> "FILE_TOO_LARGE"],
     [holds |-> e.api /\ e.status >= 500,                      code |-> "SERVER_ERROR"],
     [holds |-> e.api /\ e.msg \in {"unsupported", "format"},  code |-> "UNSUPPORTED_FORMAT"],
     [holds |-> e.name = "TimeoutError" \/ e.code = "ECONNABORTED", code |-> "TIMEOUT"],
     [holds |-> TRUE,                                          code |-> "UNKNOWN_ERROR"] >>

\* C23: classifyError gives every failure one of the seven codes, the code of the first
\* signal, in the order of priority, that the failure carries.
C23_FirstSignalDecides ==
  cePc = "returned" =>
    /\ ceCode \in GroqErrorCode
    /\ \A k \in 1 .. Len(PrioritySignals(ceError)) :
         (/\ PrioritySignals(ceError)[k].holds
          /\ \A j \in 1 .. (k - 1) : ~PrioritySignals(ceError)[j].holds)
           => ceCode = PrioritySignals(ceError)[k].code

\* an error of the API with a 5xx status, a message that names a format and the name
\* of a timeout has been classified as a server error
C23_Witness ==
  /\ cePc = "returned"
  /\ ceError = [api |-> TRUE, status |-> 503, msg |-> "format", name |-> "TimeoutError",
                code |-> "ECONNABORTED"]
  /\ ceCode = "SERVER_ERROR"

(* ------------------------------------------------------------------ *)
(* src/app/api/export/pdf/route.ts, lines 313-321: getBackoffDelay     *)
(* ------------------------------------------------------------------ *)
\* the largest attempt index of the calls
MaxBackoffAttempt == 5

\* what a step of getBackoffDelay leaves alone
BackoffFrame ==
  UNCHANGED <<cmdVars, groqVars, pipeVars, callVars, idVars, clVars, ceVars>>

\* getBackoffDelay is called for attempt 0, with the two draws of Math.random
InitBackoff ==
  /\ InitPipeline /\ CmdIdle /\ GroqIdle /\ CallIdle /\ IdIdle /\ CleanupIdle /\ ClassifyIdle
  /\ bdPc = "called"
  /\ bdAttempt = 0
  /\ bdRandom \in RandomUnits \X RandomUnits
  /\ bdDelay = NoDelay

\* line 320, Math.random() > 0.5: delay + jitter
BackoffAdds ==
  /\ bdPc = "called"
  /\ 2 * bdRandom[2] > RandomSteps
  /\ bdDelay' = [delay |-> CappedDelay(bdAttempt),
                 out   |-> GetBackoffDelay(bdAttempt, bdRandom[1], bdRandom[2])]
  /\ bdPc' = "returned"
  /\ UNCHANGED <<bdAttempt, bdRandom>>
  /\ BackoffFrame

\* line 320, otherwise: delay - jitter
BackoffSubtracts ==
  /\ bdPc = "called"
  /\ 2 * bdRandom[2] <= RandomSteps
  /\ bdDelay' = [delay |-> CappedDelay(bdAttempt),
                 out   |-> GetBackoffDelay(bdAttempt, bdRandom[1], bdRandom[2])]
  /\ bdPc' = "returned"
  /\ UNCHANGED <<bdAttempt, bdRandom>>
  /\ BackoffFrame

\* the call for the next attempt; bdDelay keeps the values of the call before
BackoffNext ==
  /\ bdPc = "returned"
  /\ bdAttempt < MaxBackoffAttempt
  /\ bdAttempt' = bdAttempt + 1
  /\ bdRandom' \in RandomUnits \X RandomUnits
  /\ bdPc' = "called"
  /\ UNCHANGED bdDelay
  /\ BackoffFrame

NextBackoff == BackoffAdds \/ BackoffSubtracts \/ BackoffNext

SpecBackoff == InitBackoff /\ [][NextBackoff]_vars

\* C24: every delay that getBackoffDelay returns, jitter included, is at most
\* MaxDelayMs, for every attempt index and every draw.
C24_DelayAtMostMaxDelay ==
  bdPc = "returned" => bdDelay.out <= MaxDelayMs

\* C25: the delay returned for attempt n lies between 0.8 and 1.2 times
\* min(BaseDelayMs * 2^n, MaxDelayMs); and from one attempt to the next the delay before
\* the jitter does not decrease, and stays at MaxDelayMs once it has reached it.
C25_DelayWithinJitterOfBackoff ==
  /\ [](bdPc = "returned" =>
          /\ 10 * bdDelay.out >= 8 * Min(BaseDelayMs * Pow2(bdAttempt), MaxDelayMs)
          /\ 10 * bdDelay.out <= 12 * Min(BaseDelayMs * Pow2(bdAttempt), MaxDelayMs))
  /\ [][(bdPc = "called" /\ bdPc' = "returned") =>
          /\ bdDelay'.delay >= bdDelay.delay
          /\ bdDelay'.delay <= MaxDelayMs
          /\ bdDelay.delay = MaxDelayMs => bdDelay'.delay = MaxDelayMs]_vars

\* the delay of attempt 5 has been returned with the largest jitter added, after the
\* delay before the jitter had reached MaxDelayMs at attempt 4
C25_Witness ==
  /\ bdPc = "returned"
  /\ bdAttempt = 5
  /\ bdRandom = <<RandomSteps - 1, RandomSteps - 1>>
  /\ bdDelay.delay = MaxDelayMs
  /\ bdDelay.out > MaxDelayMs

(* ------------------------------------------------------------------ *)
(* src/lib/youtube-audio-extractor.ts, lines 72-77 and 239-244: the    *)
(* handlers of 'exit' and 'SIGINT', and cleanup()                      *)
(* ------------------------------------------------------------------ *)
\* the elements of a set of paths, in some order
RECURSIVE SeqOf(_)
SeqOf(S) == IF S = {} THEN << >> ELSE LET x == CHOOSE y \in S : TRUE IN <<x>> \o SeqOf(S \ {x})

\* Lines 239-243 within a handler: cleanupFile is called for every registered path;
\* each call runs up to its await: existsSync, and unlink is requested for a file that
\* exists. The handler does not wait for the promises.
SweepCalls ==
  LET paths == SeqOf(registry)
  IN [k \in 1 .. Len(paths) |->
        IF paths[k] \in disk
        THEN CleanupCall(paths[k], "unlinking", TRUE, "none", disk)
        ELSE CleanupCall(paths[k], "returned", FALSE, "none", disk)]

\* what a step of the exit handlers leaves alone
ExitFrame ==
  UNCHANGED <<cmdVars, groqVars, callVars, idVars, ceVars, bdVars, now, ticks, started, req,
              hits, cache, jobs, doneOk, registry>>

\* line 73: the process exits normally; the 'exit' listener calls cleanup()
NormalExit ==
  /\ proc.st = "running"
  /\ proc' = [st |-> "exit", signal |-> "exit"]
  /\ clCalls' = clCalls \o SweepCalls
  /\ UNCHANGED disk
  /\ ExitFrame

\* lines 74-75: SIGINT arrives; its listener calls cleanup()
Interrupt ==
  /\ proc.st = "running"
  /\ proc' = [st |-> "sigint", signal |-> "SIGINT"]
  /\ clCalls' = clCalls \o SweepCalls
  /\ UNCHANGED disk
  /\ ExitFrame

\* line 76 and line 73: process.exit(130) emits 'exit', whose listener calls cleanup()
InterruptExits ==
  /\ proc.st = "sigint"
  /\ proc' = [proc EXCEPT !.st = "exit"]
  /\ clCalls' = clCalls \o SweepCalls
  /\ UNCHANGED disk
  /\ ExitFrame

\* An unlink that was requested is carried out while the process is still there. The
\* rest of cleanupFile (lines 224-226) waits for a turn of the event loop that does
\* not come.
SweepUnlinkDone(i) ==
  /\ proc.st \in {"sigint", "exit"}
  /\ clCalls[i].pc = "unlinking"
  /\ clCalls[i].unlinked = "none"
  /\ clCalls[i].path \in disk
  /\ disk' = disk \ {clCalls[i].path}
  /\ clCalls' = [clCalls EXCEPT ![i].unlinked = "ok"]
  /\ UNCHANGED proc
  /\ ExitFrame

\* the process is gone after the 'exit' listeners have returned; what was requested
\* and not carried out is dropped
ProcessGone ==
  /\ proc.st = "exit"
  /\ proc' = [proc EXCEPT !.st = "gone"]
  /\ UNCHANGED <<disk, clCalls>>
  /\ ExitFrame

NextExit ==
  \/ NormalExit
  \/ Interrupt
  \/ InterruptExits
  \/ \E i \in DOMAIN clCalls : SweepUnlinkDone(i)
  \/ ProcessGone

SpecExit == InitCleanup /\ [][NextExit]_vars

\* C26: when the process is gone, after a normal exit or an interrupt, no file of a
\* registered path is left on disk (every deletion can succeed here).
C26_NoRegisteredFileSurvives ==
  proc.st = "gone" => \A p \in registry : p \notin disk

(* ------------------------------------------------------------------ *)
(* The extractor used by several callers at once: extractAudio and     *)
(* cleanupFile, lines 84-158 and 220-233                               *)
(* ------------------------------------------------------------------ *)
MaxRegistryJobs == 2

MaxRegistryCalls == 1

\* the paths that extractAudio has drawn so far
JobPaths == { jobs[j].path : j \in 1 .. Len(jobs) }

\* Callers extract the audio of the same video, each with the random bytes that line
\* 108 draws for it, and call cleanupFile with the paths of the jobs. The downloaders
\* end well within the timeout.
NextRegistry ==
  \/ \E r \in Slots : DirectCall(r, {UrlWatch}, RandomDraws, MaxRegistryJobs)
  \/ \E j \in 1 .. MaxRegistryJobs : ChildWrites(j)
  \/ \E j \in 1 .. MaxRegistryJobs : ChildExits(j)
  \/ \E r \in Slots : ExecSettles(r)
  \/ \E r \in Slots : Release(r)
  \/ \E p \in JobPaths : Len(clCalls) < MaxRegistryCalls /\ CleanupFileAbsent(p)
  \/ \E p \in JobPaths : Len(clCalls) < MaxRegistryCalls /\ CleanupFileUnlinks(p)
  \/ \E i \in DOMAIN clCalls : UnlinkResolves(i)
  \/ \E i \in DOMAIN clCalls : UnlinkRejects(i)

SpecRegistry == Init /\ [][NextRegistry]_vars

\* the cleanupFile calls that return in this step
Completing == { i \in DOMAIN clCalls : clCalls[i].pc # "returned" /\ clCalls'[i].pc = "returned" }
Arriving == { i \in DOMAIN clCalls' : i \notin DOMAIN clCalls /\ clCalls'[i].pc = "returned" }

\* the handlers to which extractAudio returns a path in this step
Returning ==
  { r \in Slots : req[r].pc = "AwaitExec" /\ req'[r].pc = "Done" /\ req'[r].extracted }

\* C27: the registry holds exactly the paths that extractAudio has returned and for
\* which no cleanupFile call has completed: a path is registered in the step that
\* returns it, a path is not registered after a cleanupFile call for it has returned,
\* and the registry changes in no other way.
C27_RegistryIsThePendingPaths ==
  [][/\ \A r \in Returning : PathOf(req[r]) \in registry'
     /\ \A i \in Completing \cup Arriving : clCalls'[i].path \notin registry'
     /\ \A p \in registry' \ registry : \E r \in Returning : PathOf(req[r]) = p
     /\ \A p \in registry \ registry' : \E i \in Completing : clCalls'[i].path = p]_vars

\* C28 as stated: two extraction jobs never share a temporary path
C28_NoTwoJobsShareAPath ==
  \A i, j \in 1 .. Len(jobs) : i # j => jobs[i].path # jobs[j].path

\* C28: two extraction jobs whose random bytes differ have different paths, also for
\* the same identifier, and a cleanupFile call removes from the disk no other file than
\* the one of its path: the cleanup for one job leaves the file of such another job.
C28_FreshDrawsGiveDisjointPaths ==
  /\ [](\A i, j \in 1 .. Len(jobs) :
          jobs[i].random # jobs[j].random => jobs[i].path # jobs[j].path)
  /\ [][\A p \in disk \ disk' : \E i \in Completing : clCalls'[i].path = p]_vars

\* two jobs for the same video with different random bytes; the file of the first has
\* been deleted by cleanupFile while the extracted file of the second is on disk, its
\* caller not yet finished
C28_Witness ==
  /\ Len(jobs) = 2
  /\ jobs[1].url = jobs[2].url
  /\ jobs[1].random # jobs[2].random
  /\ \E i \in ReturnedCalls : clCalls[i].path = jobs[1].path /\ clCalls[i].ret
  /\ jobs[1].path \notin disk
  /\ jobs[2].path \in disk
  /\ jobs[2].path \in registry
  /\ \E r \in Slots : req[r].pc = "Done" /\ req[r].job = 2 /\ req[r].extracted

\* C29: transcribe never returns from behind its loop: it has returned from a service
\* call, with a transcription, with a permanent error, or with the error of the attempt
\* that was the last one allowed, for every cap of at least one attempt.
C29_NoReturnAfterLoop ==
  /\ tResult.after # "loop"
  /\ tPc = "returned" =>
       /\ tResult.after = "call"
       /\ \/ tResult.success
          \/ Last(tCodes) \in PermanentCodes
          \/ Len(tCodes) = tMaxAttempts

\* with a cap of one attempt, the transient failure of the only attempt has been
\* returned from inside the loop
C29_Witness ==
  /\ tPc = "returned"
  /\ tMaxAttempts = 1
  /\ tCodes = << "SERVER_ERROR" >>
  /\ tResult = [success |-> FALSE, code |-> "SERVER_ERROR", text |-> "", after |-> "call"]

\* C30: transcribe sleeps only between attempts. Every sleep follows a transient
\* failure of an attempt that was not the last one; before each call there have been as
\* many sleeps as calls, and a run that has returned after k calls has slept k - 1
\* times: nothing follows a success, a permanent error or the last failure.
C30_SleepsOnlyBetweenAttempts ==
  /\ \A i \in 1 .. Len(tSleeps) : tCodes[i] \in TransientCodes /\ i < tMaxAttempts
  /\ tPc \in {"loop", "call", "sleep"} => Len(tSleeps) = tCalls /\ ~tResult.success
  /\ tPc = "sleep" => tAttempt = tCalls - 1
  /\ tPc = "returned" =>
       /\ tCalls >= 1
       /\ Len(tSleeps) = tCalls - 1
       /\ Len(tCodes) = IF tResult.success THEN tCalls - 1 ELSE tCalls

\* a run of three calls: two transient failures, each followed by a sleep, then a
\* transcription and no further sleep
C30_Witness ==
  /\ tPc = "returned"
  /\ tResult.success
  /\ tCalls = 3
  /\ tCodes = << "RATE_LIMIT", "UNKNOWN_ERROR" >>
  /\ Len(tSleeps) = 2

\* the outcomes of extractAudio: the success, and the failures of lines 89-95,
\* 130-137 and 151-157
ExtractFailures == {"InvalidUrl", "Timeout", "ProcessError", "OutputMissing"}

\* the handlers to which extractAudio returns in this step, called directly
ReturningDirect ==
  { r \in Slots : req[r].pc # "Done" /\ req'[r].pc = "Done" /\ req'[r].kind = "direct" }

\* C31: extractAudio always returns a result to its caller. A failure (invalid URL,
\* timeout, non-zero exit, missing output file) is a result without success and
\* without audioPath; a success carries the path of its job, whose file is on disk
\* when extractAudio returns it, and the path is then in the registry.
C31_ExtractAlwaysReturnsAResult ==
  /\ [](\A r \in Slots :
          (req[r].pc = "Done" /\ req[r].kind = "direct") =>
             /\ req[r].res.outcome \in ExtractFailures \cup {"Extracted"}
             /\ req[r].res.success <=> req[r].res.outcome = "Extracted"
             /\ ~req[r].res.success => req[r].res.audioPath = None
             /\ req[r].res.success =>
                  (req[r].res.audioPath # None /\ req[r].res.audioPath = PathOf(req[r])))
  /\ [][\A r \in ReturningDirect :
          req'[r].res.success =>
             /\ req'[r].res.audioPath \in disk
             /\ req'[r].res.audioPath \in registry']_vars

\* one direct call has returned a path that is registered, another one has returned
\* the failure of a missing output file
C31_Witness ==
  /\ \E r \in Slots :
       /\ req[r].pc = "Done" /\ req[r].kind = "direct" /\ req[r].res.success
       /\ req[r].res.audioPath = PathOf(req[r])
       /\ PathOf(req[r]) \in registry
  /\ \E r \in Slots :
       /\ req[r].pc = "Done" /\ req[r].kind = "direct"
       /\ req[r].res.outcome = "OutputMissing"
       /\ req[r].res.audioPath = None

\* the first entry of a header that holds a comma-separated list
FirstEntry(v) == Trim(FirstField(v))

\* C32: the identity of a request is the first entry of x-forwarded-for when the
\* header is there with one, x-real-ip when only that header is there, and
\* 'unknown' when neither is there; the requests without either header share the
\* window of 'unknown': one that finds fewer than 10 admitted requests in it is
\* logged there, and one that finds 10 is denied with status 429 and logs nothing.
C32_HeaderlessRequestsShareOneWindow ==
  /\ [](\A r \in Handled :
          LET h == req[r].headers
          IN /\ (h.xff.has /\ FirstEntry(h.xff.v) # << >>) => req[r].ip = FirstEntry(h.xff.v)
             /\ (~h.xff.has /\ h.xri.has /\ h.xri.v # << >>) => req[r].ip = h.xri.v
             /\ (~h.xff.has /\ ~h.xri.has) => req[r].ip = Unknown)
  /\ [][\A r \in Slots :
          (Answered(r) /\ req'[r].headers = NoHeaders) =>
            IF Cardinality(InWindow(Unknown, now)) >= Capacity
            THEN req'[r].res.status = 429 /\ hits' = hits
            ELSE /\ req'[r].res.status # 429
                 /\ hits' = [hits EXCEPT ![Unknown] = Append(@, now)]]_vars

\* a request without either header is denied as the 11th of the window of 'unknown'
C32_Witness ==
  \E r \in Handled :
    /\ req[r].headers = NoHeaders
    /\ req[r].ip = Unknown
    /\ req[r].res.status = 429
    /\ Cardinality(InWindow(Unknown, now)) = Capacity

====
